---- MODULE Spec2Model ----
(***************************************************************************)
(* Model of examples/financial_research_agent/manager.py:                  *)
(* FinancialResearchManager.run and the four stages it sequences           *)
(* (_plan_searches, _perform_searches/_search, _write_report,              *)
(* _verify_report).  One action per stretch of code between two            *)
(* suspension points (await) of the coroutines.                            *)
(***************************************************************************)
EXTENDS Integers, Sequences, FiniteSets, TLC

\* ---------------------------------------------------------------- bounds
MaxSearches == 3        \* longest plan the planner returns
MaxEvents == 4          \* most stream events the writer stream delivers
MaxClock == 24          \* last time.time() reading (seconds since the stream was started)

\* ------------------------------------------------------- program constants
UpdateInterval == 5     \* "time.time() - last_update > 5"

update_messages ==
    << "Planning report structure...", "Writing sections...", "Finalizing report..." >>

\* ------------------------------------------------------------ input sets
Queries == {"q1"}
\* the texts the search agent may return for item i: one of its own, one any item can get
TextsFor(i) == {"T" \o ToString(i), "same"}
ClockSteps == {0, 5, 6}      \* seconds between two stream events

\* FinancialSearchItem(query, reason); item i of every plan is ItemAt(i)
ItemAt(i) == [query |-> "term" \o ToString(i), reason |-> "why" \o ToString(i)]

\* the FinancialSearchPlan values the planner may return: .searches of length 0..MaxSearches
Plans == { [i \in 1..n |-> ItemAt(i)] : n \in 0..MaxSearches }

\* the FinancialReportData values the writer may return
Reports ==
    { [short_summary |-> "s1", markdown_report |-> "md1", follow_up_questions |-> <<"f1", "f2">>],
      [short_summary |-> "s2", markdown_report |-> "md2", follow_up_questions |-> << >>] }

\* the VerificationResult values the verifier may return
Verifications == { [verified |-> TRUE], [verified |-> FALSE] }

\* Optional values: None is the empty sequence, Some(v) the one-element sequence
None == << >>
Some(v) == << v >>

VARIABLES
    pc,             \* position of run(): the await it is suspended at, or the stage boundary
    exc,            \* None, or Some([stage, by]): the failure that propagated out of run()
    query,          \* argument of run()
    search_plan,    \* run's local: None or Some(plan)
    search_results, \* run's local: None or Some(sequence of texts)
    report,         \* run's local: None or Some(FinancialReportData)
    verification,   \* run's local: None or Some(VerificationResult)
    tasks,          \* _perform_searches' tasks: sequence of [state, result]
    done_queue,     \* as_completed's queue of finished tasks, oldest first
    settle_order,   \* task indices in the order the tasks finished
    results,        \* _perform_searches' local
    num_completed,  \* _perform_searches' local
    num_failed,     \* _perform_searches' local
    failed_calls,   \* the tasks whose Runner.run call raised
    clock,          \* last time.time() reading
    last_update,    \* _write_report's local
    next_message,   \* _write_report's local (0-based index into update_messages)
    events_seen,    \* stream events consumed so far
    shown_at,       \* the readings of line 178 at which a message was shown
    spans,          \* stage spans and run span: name -> [state, status, attrs]
    task_spans,     \* one span per search task: sequence of [state, status, attrs]
    printer_items,  \* Printer: id -> [text, is_done]
    printer_log,    \* every Printer call in order
    printer_ended,  \* Printer.end() was called
    stdout,         \* print() calls in order
    calls           \* Runner.run / Runner.run_streamed calls in order: [agent, input]

runVars == << pc, exc, query, search_plan, search_results, report, verification >>
searchVars == << tasks, done_queue, settle_order, results, num_completed, num_failed, failed_calls >>
streamVars == << clock, last_update, next_message, events_seen, shown_at >>
spanVars == << spans, task_spans >>
outVars == << printer_items, printer_log, printer_ended, stdout >>
vars == << runVars, searchVars, streamVars, spanVars, outVars, calls >>

\* ------------------------------------------------------------------ Tracer
SpanNames == {"run", "plan_searches", "perform_searches", "write_report", "verify_report"}
NoAttrs == [k \in {} |-> 0]
NewSpan == [state |-> "unopened", status |-> "UNSET", recorded |-> FALSE, attrs |-> NoAttrs]

\* tracer.start_as_current_span(name) entered
Open(s) == [s EXCEPT !.state = "open"]
\* span.set_attribute(k, v)
SetAttr(s, k, v) == [s EXCEPT !.attrs = (k :> v) @@ s.attrs]
\* the with block is left normally
Close(s) == [s EXCEPT !.state = "closed"]
\* the with block is left by an exception: the span records it and gets status ERROR
CloseError(s) == [s EXCEPT !.state = "closed", !.status = "ERROR", !.recorded = TRUE]
\* variant: the exception is recorded but the status is not set
RecordError_NoStatus(s) == [s EXCEPT !.recorded = TRUE]

\* span.record_exception(e); span.set_status(Status(StatusCode.ERROR, str(e)))
RecordError(s) == [s EXCEPT !.status = "ERROR", !.recorded = TRUE]

\* ----------------------------------------------------------------- Printer
UpdateEvent(id, text, done) == [op |-> "update_item", id |-> id, text |-> text, is_done |-> done]
MarkDoneEvent(id) == [op |-> "mark_item_done", id |-> id, text |-> "", is_done |-> TRUE]
EndEvent == [op |-> "end", id |-> "", text |-> "", is_done |-> FALSE]

\* Printer.update_item(id, text, is_done)
UpdateItem(items, id, text, done) == (id :> [text |-> text, is_done |-> done]) @@ items
\* Printer.mark_item_done(id)
MarkItemDone(items, id) == [items EXCEPT ![id].is_done = TRUE]

NoItems == [k \in {} |-> 0]

\* ------------------------------------------------------------------- Init
Init ==
    /\ pc = "start"
    /\ exc = None
    /\ query \in Queries
    /\ search_plan = None
    /\ search_results = None
    /\ report = None
    /\ verification = None
    /\ tasks = << >>
    /\ done_queue = << >>
    /\ settle_order = << >>
    /\ results = << >>
    /\ num_completed = 0
    /\ num_failed = 0
    /\ failed_calls = {}
    /\ clock = 0
    /\ last_update = 0
    /\ next_message = 0
    /\ events_seen = 0
    /\ shown_at = << >>
    /\ spans = [n \in SpanNames |-> NewSpan]
    /\ task_spans = << >>
    /\ printer_items = NoItems
    /\ printer_log = << >>
    /\ printer_ended = FALSE
    /\ stdout = << >>
    /\ calls = << >>

\* ----------------------------------------------------------- run / plan
\* variant: the run span is not closed when an exception passes
Unwind_StageOnly(sp, stage) == [sp EXCEPT ![stage] = CloseError(@)]

\* an exception leaves the stage's with block and then run's with block
Unwind(sp, stage) == [sp EXCEPT ![stage] = CloseError(@), !["run"] = CloseError(@)]

PlannerInput(q) == "Query: " \o q

\* run lines 68-77 and _plan_searches lines 96-100, up to "await Runner.run(planner_agent, ...)"
RunStart ==
    /\ pc = "start"
    /\ pc' = "plan_await"
    /\ spans' = [spans EXCEPT
            !["run"] = SetAttr(Open(@), "query", query),
            !["plan_searches"] =
                SetAttr(SetAttr(Open(@), "query", query), "agent_model", "planner_agent.model")]
    /\ printer_items' =
            UpdateItem(UpdateItem(UpdateItem(printer_items,
                "trace_id", "Financial research trace started", TRUE),
                "start", "Starting financial research...", TRUE),
                "planning", "Planning searches...", FALSE)
    /\ printer_log' = printer_log \o
            << UpdateEvent("trace_id", "Financial research trace started", TRUE),
               UpdateEvent("start", "Starting financial research...", TRUE),
               UpdateEvent("planning", "Planning searches...", FALSE) >>
    /\ calls' = Append(calls, [agent |-> "planner_agent", input |-> PlannerInput(query)])
    /\ UNCHANGED << exc, query, search_plan, search_results, report, verification,
                    searchVars, streamVars, task_spans, printer_ended, stdout >>

\* variant: run() plans again after verifying
AfterStage_Loop(stage) ==
    CASE stage = "plan_searches" -> "planned"
      [] stage = "perform_searches" -> "searched"
      [] stage = "write_report" -> "synthesized"
      [] stage = "verify_report" -> "planned"

\* run lines 77-80: the stage boundary run() is at once the named stage has returned
AfterStage(stage) ==
    CASE stage = "plan_searches" -> "planned"
      [] stage = "perform_searches" -> "searched"
      [] stage = "write_report" -> "synthesized"
      [] stage = "verify_report" -> "verified"

\* variant: run() swallows a failure of _verify_report and goes on
OnStageFailure_Swallow(stage) == IF stage = "verify_report" THEN "verified" ELSE "raised"

\* result.final_output_as(T): the ways it fails when the final output is not a T
ParseFailures == {"final_output_as"}

\* run has no try/except: a stage's exception leaves run()
OnStageFailure(stage) == "raised"

\* the exception leaves the stage's with block, then what OnStageFailure says
Fail(stage, by) ==
    /\ exc' = Some([stage |-> stage, by |-> by])
    /\ pc' = OnStageFailure(stage)
    /\ spans' = IF OnStageFailure(stage) = "raised"
                THEN Unwind(spans, stage)
                ELSE [spans EXCEPT ![stage] = CloseError(@)]

PlanDoneText(n) == "Will perform " \o ToString(n) \o " searches"

\* _plan_searches lines 100-108: Runner.run settles, final_output_as(FinancialSearchPlan)
PlanReturn ==
    /\ pc = "plan_await"
    /\ \/ /\ \E by \in {"Runner.run"} \cup ParseFailures : Fail("plan_searches", by)
          /\ UNCHANGED << search_plan, outVars >>
       \/ \E plan \in Plans :
            /\ search_plan' = Some(plan)
            /\ spans' = [spans EXCEPT !["plan_searches"] =
                            Close(SetAttr(@, "num_searches_planned", Len(plan)))]
            /\ printer_items' = UpdateItem(printer_items, "planning", PlanDoneText(Len(plan)), TRUE)
            /\ printer_log' = Append(printer_log,
                                     UpdateEvent("planning", PlanDoneText(Len(plan)), TRUE))
            /\ pc' = AfterStage("plan_searches")
            /\ UNCHANGED << exc, printer_ended, stdout >>
    /\ UNCHANGED << query, search_results, report, verification,
                    searchVars, streamVars, task_spans, calls >>

\* ------------------------------------------------------ _perform_searches
\* asyncio.create_task: the task is scheduled, its coroutine has not run yet
NewTask == [state |-> "scheduled", result |-> None]

\* _perform_searches lines 111-118, up to the first await of the as_completed loop
PerformSearchesBegin ==
    /\ pc = "planned"
    /\ pc' = "drain"
    /\ LET plan == search_plan[1] IN
        /\ spans' = [spans EXCEPT !["perform_searches"] =
                        SetAttr(Open(@), "num_searches_total", Len(plan))]
        /\ tasks' = [i \in 1..Len(plan) |-> NewTask]
        /\ task_spans' = [i \in 1..Len(plan) |-> NewSpan]
    /\ printer_items' = UpdateItem(printer_items, "searching", "Searching...", FALSE)
    /\ printer_log' = Append(printer_log, UpdateEvent("searching", "Searching...", FALSE))
    /\ done_queue' = << >>
    /\ settle_order' = << >>
    /\ results' = << >>
    /\ num_completed' = 0
    /\ num_failed' = 0
    /\ failed_calls' = {}
    /\ UNCHANGED << exc, query, search_plan, search_results, report, verification,
                    streamVars, printer_ended, stdout, calls >>

SearchInput(item) == "Search term: " \o item.query \o "\nReason: " \o item.reason

\* variant: a task is started only when no other task is in flight
Startable_OneInFlight(ts, i) ==
    /\ ts[i].state = "scheduled"
    /\ \A j \in 1..(i - 1) : ts[j].state # "scheduled"
    /\ \A j \in 1..Len(ts) : ts[j].state # "running"

\* line 114: asyncio.create_task schedules every coroutine at once; the event loop runs
\* the scheduled coroutines first in, first out
Startable(ts, i) ==
    /\ ts[i].state = "scheduled"
    /\ \A j \in 1..(i - 1) : ts[j].state # "scheduled"

\* _search lines 134-140, up to "await Runner.run(search_agent, input_data)".
SearchStart(i) ==
    /\ i \in 1..Len(tasks)
    /\ Startable(tasks, i)
    /\ LET item == search_plan[1][i] IN
        /\ task_spans' = [task_spans EXCEPT ![i] =
                SetAttr(SetAttr(SetAttr(Open(@),
                    "search.query", item.query),
                    "search.reason", item.reason),
                    "agent_model", "search_agent.model")]
        /\ calls' = Append(calls, [agent |-> "search_agent", input |-> SearchInput(item)])
    /\ tasks' = [tasks EXCEPT ![i].state = "running"]
    /\ UNCHANGED << runVars, done_queue, settle_order, results, num_completed, num_failed,
                    failed_calls, streamVars, spans, outVars >>

\* str(result.final_output) of the search agent, whose final output is text
Str(text) == text

\* variant: no try/except around Runner.run, the exception ends the task
SearchReturn_Propagates(ok, text) ==
    IF ok THEN [state |-> "done", result |-> Some(Str(text))]
          ELSE [state |-> "raised", result |-> None]

\* _search lines 139-147: what the task finishes with when Runner.run returned text
\* (ok) or raised an Exception (~ok)
SearchReturn(ok, text) ==
    IF ok THEN [state |-> "done", result |-> Some(Str(text))]
          ELSE [state |-> "done", result |-> None]

\* _search lines 141-147: Runner.run settles and the task finishes
SearchSettle(i) ==
    /\ i \in 1..Len(tasks)
    /\ tasks[i].state = "running"
    /\ \E ok \in BOOLEAN, text \in TextsFor(i) :
        /\ ok \/ text = "same"
        /\ failed_calls' = IF ok THEN failed_calls ELSE failed_calls \cup {i}
        /\ tasks' = [tasks EXCEPT ![i] = SearchReturn(ok, text)]
        /\ task_spans' = [task_spans EXCEPT ![i] =
                IF ok THEN Close(SetAttr(@, "search.success", TRUE))
                ELSE IF SearchReturn(ok, text).state = "done"
                     THEN Close(RecordError(SetAttr(@, "search.success", FALSE)))
                     ELSE CloseError(@)]
    /\ done_queue' = Append(done_queue, i)
    /\ settle_order' = Append(settle_order, i)
    /\ UNCHANGED << runVars, results, num_completed, num_failed,
                    streamVars, spans, outVars, calls >>

\* variant: the finished tasks are taken in submission order
NextCompleted_Lowest(queue) ==
    CHOOSE i \in { queue[k] : k \in 1..Len(queue) } :
        \A j \in { queue[k] : k \in 1..Len(queue) } : i <= j

\* asyncio.as_completed: the next future it yields is the one that finished first
NextCompleted(queue) == Head(queue)

RECURSIVE Without(_, _)
\* the queue with its (single) occurrence of i removed
Without(queue, i) ==
    IF queue = << >> THEN << >>
    ELSE IF Head(queue) = i THEN Tail(queue)
    ELSE << Head(queue) >> \o Without(Tail(queue), i)

\* variant: the outcome is appended whether it is a text or None
ResultsAfter_Always(res, result) ==
    Append(res, IF result # None THEN result[1] ELSE "None")

\* lines 120-121: results after one drained outcome
ResultsAfter(res, result) == IF result # None THEN Append(res, result[1]) ELSE res
\* variant: the failure branch does not count
NumFailedAfter_Never(nf, result) == nf

\* lines 122-123: num_failed after one drained outcome
NumFailedAfter(nf, result) == IF result # None THEN nf ELSE nf + 1

\* variant: the ratio is shown before the counter is incremented
SearchingText_Before(k, n) ==
    "Searching... " \o ToString(k - 1) \o "/" \o ToString(n) \o " completed"

SearchingText(k, n) == "Searching... " \o ToString(k) \o "/" \o ToString(n) \o " completed"

\* _perform_searches lines 118-127: one iteration of the as_completed loop
Drain ==
    /\ pc = "drain"
    /\ num_completed < Len(tasks)
    /\ done_queue # << >>
    /\ LET i == NextCompleted(done_queue) IN
        /\ done_queue' = Without(done_queue, i)
        /\ IF tasks[i].state = "raised"
           THEN \* "await task" re-raises the task's exception
                /\ Fail("perform_searches", "task")
                /\ UNCHANGED << results, num_completed, num_failed, outVars >>
           ELSE /\ results' = ResultsAfter(results, tasks[i].result)
                /\ num_failed' = NumFailedAfter(num_failed, tasks[i].result)
                /\ num_completed' = num_completed + 1
                /\ printer_items' = UpdateItem(printer_items, "searching",
                        SearchingText(num_completed + 1, Len(tasks)), FALSE)
                /\ printer_log' = Append(printer_log, UpdateEvent("searching",
                        SearchingText(num_completed + 1, Len(tasks)), FALSE))
                /\ UNCHANGED << pc, exc, spans, printer_ended, stdout >>
    /\ UNCHANGED << query, search_plan, search_results, report, verification,
                    tasks, settle_order, failed_calls, streamVars, task_spans, calls >>

\* variant: the loop is left after the first outcome
DrainDone_First(completed, n) == completed >= 1 \/ n = 0

\* variant: an empty batch never ends the loop
DrainDone_NonEmpty(completed, n) == completed = n /\ n > 0

\* variant: the loop waits for one outcome more than there are tasks
DrainDone_OneMore(completed, n) == completed > n

\* line 118: the as_completed loop ends when it has yielded every task
DrainDone(completed, n) == completed = n

\* _perform_searches lines 128-131
PerformSearchesEnd ==
    /\ pc = "drain"
    /\ DrainDone(num_completed, Len(tasks))
    /\ spans' = [spans EXCEPT !["perform_searches"] =
            Close(SetAttr(SetAttr(@, "num_searches_completed", Len(results)),
                                     "num_searches_failed", num_failed))]
    /\ printer_items' = MarkItemDone(printer_items, "searching")
    /\ printer_log' = Append(printer_log, MarkDoneEvent("searching"))
    /\ search_results' = Some(results)
    /\ pc' = AfterStage("perform_searches")
    /\ UNCHANGED << exc, query, search_plan, report, verification,
                    searchVars, streamVars, task_spans, printer_ended, stdout, calls >>

\* --------------------------------------------------------- _write_report
RECURSIVE ReprItems(_)
\* the items of repr(list of str), comma separated
ReprItems(seq) ==
    IF seq = << >> THEN ""
    ELSE IF Len(seq) = 1 THEN "'" \o seq[1] \o "'"
    ELSE "'" \o seq[1] \o "', " \o ReprItems(Tail(seq))

\* line 168: the f-string given to the writer
WriterInput(q, res) ==
    "Original query: " \o q \o "\nSummarized search results: [" \o ReprItems(res) \o "]"

\* _write_report lines 150-177, up to the first await of "async for ... in result.stream_events()".
\* The clock counts the seconds since the reading of line 175.
WriteReportBegin ==
    /\ pc = "searched"
    /\ pc' = "streaming"
    /\ spans' = [spans EXCEPT !["write_report"] =
            SetAttr(SetAttr(SetAttr(Open(@),
                "query", query),
                "num_search_results", Len(search_results[1])),
                "agent_model", "writer_agent.model")]
    /\ printer_items' = UpdateItem(printer_items, "writing", "Thinking about report...", FALSE)
    /\ printer_log' = Append(printer_log,
                             UpdateEvent("writing", "Thinking about report...", FALSE))
    /\ calls' = Append(calls, [agent |-> "writer_with_tools",
                               input |-> WriterInput(query, search_results[1])])
    /\ clock' = 0
    /\ last_update' = 0
    /\ next_message' = 0
    /\ events_seen' = 0
    /\ shown_at' = << >>
    /\ UNCHANGED << exc, query, search_plan, search_results, report, verification,
                    searchVars, task_spans, printer_ended, stdout >>

\* variant: 5 seconds are enough
ShouldUpdate_AtLeast(now, last, next) ==
    now - last >= UpdateInterval /\ next < Len(update_messages)

\* line 178: the condition under which the next message is shown
ShouldUpdate(now, last, next) ==
    now - last > UpdateInterval /\ next < Len(update_messages)

\* _write_report lines 177-181: one stream event is received.  Nothing is awaited between
\* lines 178 and 181, whose two readings of the clock are taken to be the same: now.
StreamEvent ==
    /\ pc = "streaming"
    /\ events_seen < MaxEvents
    /\ events_seen' = events_seen + 1
    /\ \E dt \in ClockSteps :
        LET now == clock + dt
        IN  /\ now <= MaxClock
            /\ clock' = now
            /\ IF ShouldUpdate(now, last_update, next_message)
               THEN /\ printer_items' = UpdateItem(printer_items, "writing",
                                                   update_messages[next_message + 1], FALSE)
                    /\ printer_log' = Append(printer_log,
                            UpdateEvent("writing", update_messages[next_message + 1], FALSE))
                    /\ next_message' = next_message + 1
                    /\ last_update' = now
                    /\ shown_at' = Append(shown_at, now)
               ELSE UNCHANGED << printer_items, printer_log, next_message, last_update, shown_at >>
    /\ UNCHANGED << runVars, searchVars, spanVars, printer_ended, stdout, calls >>

\* the locals of _write_report are gone once it has returned or raised
StreamLocalsDropped ==
    /\ clock' = 0
    /\ last_update' = 0
    /\ next_message' = 0
    /\ events_seen' = 0
    /\ shown_at' = << >>

\* line 177: stream_events() raises
StreamFail ==
    /\ pc = "streaming"
    /\ Fail("write_report", "stream_events")
    /\ StreamLocalsDropped
    /\ UNCHANGED << query, search_plan, search_results, report, verification,
                    searchVars, task_spans, outVars, calls >>

\* _write_report lines 182-185: the stream is exhausted
StreamEnd ==
    /\ pc = "streaming"
    /\ printer_items' = MarkItemDone(printer_items, "writing")
    /\ printer_log' = Append(printer_log, MarkDoneEvent("writing"))
    /\ \/ /\ \E by \in ParseFailures : Fail("write_report", by)
          /\ UNCHANGED report
       \/ \E r \in Reports :
            /\ report' = Some(r)
            /\ spans' = [spans EXCEPT !["write_report"] =
                            Close(SetAttr(@, "report.length", Len(r.markdown_report)))]
            /\ pc' = AfterStage("write_report")
            /\ UNCHANGED exc
    /\ StreamLocalsDropped
    /\ UNCHANGED << query, search_plan, search_results, verification,
                    searchVars, task_spans, printer_ended, stdout, calls >>

\* -------------------------------------------------------- _verify_report
\* variant: the verifier is given the short summary
VerifyInput_Summary(r) == r.short_summary

\* line 191: what the verifier is given
VerifyInput(r) == r.markdown_report

\* _verify_report lines 188-191, up to "await Runner.run(verifier_agent, ...)"
VerifyBegin ==
    /\ pc = "synthesized"
    /\ pc' = "verify_await"
    /\ spans' = [spans EXCEPT !["verify_report"] =
                    SetAttr(Open(@), "agent_model", "verifier_agent.model")]
    /\ printer_items' = UpdateItem(printer_items, "verifying", "Verifying report...", FALSE)
    /\ printer_log' = Append(printer_log, UpdateEvent("verifying", "Verifying report...", FALSE))
    /\ calls' = Append(calls, [agent |-> "verifier_agent", input |-> VerifyInput(report[1])])
    /\ UNCHANGED << exc, query, search_plan, search_results, report, verification,
                    searchVars, streamVars, task_spans, printer_ended, stdout >>

\* _verify_report lines 191-195: Runner.run settles
VerifyReturn ==
    /\ pc = "verify_await"
    /\ \/ /\ Fail("verify_report", "Runner.run")
          /\ UNCHANGED << verification, printer_items, printer_log >>
       \/ /\ printer_items' = MarkItemDone(printer_items, "verifying")
          /\ printer_log' = Append(printer_log, MarkDoneEvent("verifying"))
          /\ \/ /\ \E by \in ParseFailures : Fail("verify_report", by)
                /\ UNCHANGED verification
             \/ \E v \in Verifications :
                  /\ verification' = Some(v)
                  /\ spans' = [spans EXCEPT !["verify_report"] =
                                  Close(SetAttr(@, "verification.passed", v.verified))]
                  /\ pc' = AfterStage("verify_report")
                  /\ UNCHANGED exc
    /\ UNCHANGED << query, search_plan, search_results, report,
                    searchVars, streamVars, task_spans, printer_ended, stdout, calls >>

\* ------------------------------------------------------------ end of run
RECURSIVE Join(_, _)
\* sep.join(seq)
Join(seq, sep) ==
    IF seq = << >> THEN ""
    ELSE IF Len(seq) = 1 THEN seq[1]
    ELSE seq[1] \o sep \o Join(Tail(seq), sep)

\* str(verification) as print shows it
Render(v) == IF v = None THEN "None"
             ELSE IF v[1].verified THEN "verified=True" ELSE "verified=False"

\* line 82
FinalReportText(r) == "Report summary\n\n" \o r.short_summary

\* variant: the verification result is not printed
FinalPrints_NoVerification(r, v) ==
    << "\n\n=====REPORT=====\n\n",
       "Report:\n" \o r.markdown_report,
       "\n\n=====FOLLOW UP QUESTIONS=====\n\n",
       Join(r.follow_up_questions, "\n"),
       "\n\n=====VERIFICATION=====\n\n" >>

\* lines 88-93: the six print calls
FinalPrints(r, v) ==
    << "\n\n=====REPORT=====\n\n",
       "Report:\n" \o r.markdown_report,
       "\n\n=====FOLLOW UP QUESTIONS=====\n\n",
       Join(r.follow_up_questions, "\n"),
       "\n\n=====VERIFICATION=====\n\n",
       Render(v) >>

\* run lines 82-93
RunFinish ==
    /\ pc = "verified"
    /\ pc' = "done"
    /\ printer_items' = UpdateItem(printer_items, "final_report", FinalReportText(report[1]), TRUE)
    /\ printer_log' = printer_log \o
            << UpdateEvent("final_report", FinalReportText(report[1]), TRUE), EndEvent >>
    /\ printer_ended' = TRUE
    /\ spans' = [spans EXCEPT !["run"] = Close(@)]
    /\ stdout' = stdout \o FinalPrints(report[1], verification)
    /\ UNCHANGED << exc, query, search_plan, search_results, report, verification,
                    searchVars, streamVars, task_spans, calls >>

Next ==
    \/ RunStart
    \/ PlanReturn
    \/ PerformSearchesBegin
    \/ \E i \in 1..MaxSearches : SearchStart(i)
    \/ \E i \in 1..MaxSearches : SearchSettle(i)
    \/ Drain
    \/ PerformSearchesEnd
    \/ WriteReportBegin
    \/ StreamEvent
    \/ StreamFail
    \/ StreamEnd
    \/ VerifyBegin
    \/ VerifyReturn
    \/ RunFinish

Spec == Init /\ [][Next]_vars

\* The event loop runs every coroutine that can run, and every Runner call settles: each
\* step that stays possible is eventually taken.  The stream may end at any event, so
\* no further event is ever required.
FairSpec ==
    /\ Spec
    /\ WF_vars(RunStart)
    /\ WF_vars(PlanReturn)
    /\ WF_vars(PerformSearchesBegin)
    /\ \A i \in 1..MaxSearches : WF_vars(SearchStart(i))
    /\ \A i \in 1..MaxSearches : WF_vars(SearchSettle(i))
    /\ WF_vars(Drain)
    /\ WF_vars(PerformSearchesEnd)
    /\ WF_vars(WriteReportBegin)
    /\ WF_vars(StreamFail \/ StreamEnd)
    /\ WF_vars(VerifyBegin)
    /\ WF_vars(VerifyReturn)
    /\ WF_vars(RunFinish)

\* ======================================================== properties
N == Len(tasks)
Settled(i) == tasks[i].state \in {"done", "raised"}
Succeeded == { i \in 1..N : tasks[i].state = "done" /\ tasks[i].result # None }
Failed == { i \in 1..N : tasks[i].state = "done" /\ tasks[i].result = None }
Called(agent) == { k \in 1..Len(calls) : calls[k].agent = agent }
Occurrences(seq, x) == Cardinality({ k \in 1..Len(seq) : seq[k] = x })
SearchSpan == spans["perform_searches"]

\* C1: once the Search stage has returned, every one of the N tasks of the plan has been
\* drained exactly once, num_completed = N = len(results) + num_failed, and the span
\* carries total = N, completed = number of successes, failed = number of failures.
C1_DrainCounts ==
    search_results # None =>
        /\ N = Len(search_plan[1])
        /\ \A i \in 1..N : Occurrences(settle_order, i) = 1
        /\ done_queue = << >>
        /\ num_completed = N
        /\ num_completed = Len(results) + num_failed
        /\ Len(results) = Cardinality(Succeeded)
        /\ num_failed = Cardinality(Failed)
        /\ SearchSpan.attrs["num_searches_total"] = N
        /\ SearchSpan.attrs["num_searches_completed"] = Cardinality(Succeeded)
        /\ SearchSpan.attrs["num_searches_failed"] = Cardinality(Failed)
        /\ SearchSpan.attrs["num_searches_total"] =
             SearchSpan.attrs["num_searches_completed"] + SearchSpan.attrs["num_searches_failed"]

C1_Witness ==
    /\ search_results # None
    /\ N >= 2
    /\ Cardinality(Succeeded) >= 1
    /\ Cardinality(Failed) >= 1

\* C2: a task whose Runner.run call raised has finished with the one outcome None, no
\* exception ever leaves the Search stage, the other tasks can still start and settle,
\* the drain loop can still take every finished task, and the stage can return once
\* all are drained, whatever set of calls failed.
C2_FailureIsolated ==
    /\ \A i \in failed_calls :
          /\ tasks[i].state = "done"
          /\ tasks[i].result = None
          /\ Occurrences(settle_order, i) = 1
    /\ exc # None => exc[1].stage # "perform_searches"
    /\ \A j \in 1..N : tasks[j].state = "running" => ENABLED SearchSettle(j)
    /\ (\E j \in 1..N : tasks[j].state = "scheduled") => ENABLED (\E j \in 1..N : SearchStart(j))
    /\ (pc = "drain" /\ done_queue # << >>) => ENABLED Drain
    /\ (pc = "drain" /\ num_completed = N) => ENABLED PerformSearchesEnd

C2_Witness ==
    /\ search_results # None
    /\ N >= 2
    /\ failed_calls = 1..N

\* C3: from the moment the writer has been invoked, every search task launched by
\* _perform_searches has settled and has been drained.
C3_DrainedBeforeSynthesize ==
    Called("writer_with_tools") # {} =>
        /\ N = Len(search_plan[1])
        /\ \A i \in 1..N : Settled(i)
        /\ done_queue = << >>

C3_Witness ==
    /\ pc = "streaming"
    /\ N >= 2
    /\ settle_order = << 2, 1 >> \o [k \in 1..(N - 2) |-> k + 2]

\* C4: run() only moves forward, one stage boundary at a time (or out, by an exception);
\* each stage is invoked at most once; each artifact is produced once, by its own
\* stage; a finished run has all three.
Rank(p) ==
    CASE p = "start" -> 0
      [] p = "plan_await" -> 1
      [] p = "planned" -> 2
      [] p = "drain" -> 3
      [] p = "searched" -> 4
      [] p = "streaming" -> 5
      [] p = "synthesized" -> 6
      [] p = "verify_await" -> 7
      [] p = "verified" -> 8
      [] p = "done" -> 9
      [] p = "raised" -> 10

C4_Step ==
    /\ pc' # pc =>
          \/ Rank(pc') = Rank(pc) + 1 /\ pc' # "raised"
          \/ pc' = "raised" /\ pc \in {"plan_await", "drain", "streaming", "verify_await"}
    /\ search_plan' # search_plan =>
          search_plan = None /\ pc = "plan_await" /\ pc' = "planned"
    /\ search_results' # search_results =>
          search_results = None /\ pc = "drain" /\ pc' = "searched"
    /\ report' # report =>
          report = None /\ pc = "streaming" /\ pc' = "synthesized"
    /\ verification' # verification =>
          verification = None /\ pc = "verify_await" /\ pc' = "verified"

C4_State ==
    /\ Cardinality(Called("planner_agent")) <= 1
    /\ Cardinality(Called("writer_with_tools")) <= 1
    /\ Cardinality(Called("verifier_agent")) <= 1
    /\ Len(tasks) > 0 => search_plan # None
    /\ Called("writer_with_tools") # {} => search_results # None
    /\ Called("verifier_agent") # {} => report # None
    /\ pc = "done" =>
          /\ search_plan # None /\ search_results # None
          /\ report # None /\ verification # None
          /\ Cardinality(Called("planner_agent")) = 1
          /\ Cardinality(Called("writer_with_tools")) = 1
          /\ Cardinality(Called("verifier_agent")) = 1
          /\ Cardinality(Called("search_agent")) = Len(search_plan[1])

C4_LinearStages == [] C4_State /\ [][C4_Step]_vars

C4_Witness ==
    /\ pc = "done"
    /\ N >= 1
    /\ verification[1].verified

\* C5: when Plan, Synthesize or Verify fails, the failure leaves run(): nothing more is
\* called, shown or printed afterwards, the progress display is not finalized, no
\* report line is shown or printed; a Plan failure has launched no search task, a
\* Synthesize failure has called no verifier.
C5_State ==
    exc # None =>
        /\ pc = "raised"
        /\ exc[1].stage \in {"plan_searches", "write_report", "verify_report"}
        /\ spans["run"].state = "closed" /\ spans["run"].status = "ERROR"
        /\ ~ printer_ended
        /\ stdout = << >>
        /\ "final_report" \notin DOMAIN printer_items
        /\ exc[1].stage = "plan_searches" =>
              /\ tasks = << >> /\ search_plan = None
              /\ Called("search_agent") = {}
              /\ Called("writer_with_tools") = {} /\ Called("verifier_agent") = {}
        /\ exc[1].stage = "write_report" =>
              /\ report = None
              /\ Called("verifier_agent") = {}
        /\ exc[1].stage = "verify_report" => verification = None

C5_Step == exc # None => UNCHANGED << calls, outVars, tasks, pc, exc >>

C5_FailFast == [] C5_State /\ [][C5_Step]_vars

C5_Witness ==
    /\ exc # None
    /\ exc[1].stage = "verify_report"
    /\ exc[1].by = "final_output_as"
    /\ report # None

RECURSIVE TextsOf(_)
\* the texts of the successful tasks among the given ones, in the given order
TextsOf(order) ==
    IF order = << >> THEN << >>
    ELSE (IF tasks[Head(order)].result # None THEN tasks[Head(order)].result ELSE << >>)
         \o TextsOf(Tail(order))

\* C6: the texts are in the order in which their tasks finished: results is always the
\* texts of the successful tasks among those drained, in finishing order, and so is the
\* sequence the stage returns.
C6_CompletionOrder ==
    /\ Len(settle_order) >= num_completed =>
          results = TextsOf(SubSeq(settle_order, 1, num_completed))
    /\ search_results # None => search_results[1] = TextsOf(settle_order)

\* tasks 1, 2, 3 are fast, slow, medium
C6_Witness ==
    /\ search_results # None
    /\ settle_order = << 1, 3, 2 >>
    /\ search_results[1] = << "T1", "T3", "T2" >>

\* C7: with no successful search (all failed, or no item) the Search stage can return,
\* returns the empty sequence without raising and with "searching" marked done, and the
\* writer and then the verifier can be, and are, invoked with it.
NoSuccess == \A i \in 1..N : tasks[i].result = None

C7_ZeroSuccessProceeds ==
    /\ (pc = "drain" /\ num_completed = N) => ENABLED PerformSearchesEnd
    /\ pc = "searched" => ENABLED WriteReportBegin
    /\ pc = "synthesized" => ENABLED VerifyBegin
    /\ (search_results # None /\ NoSuccess) =>
          /\ search_results[1] = << >>
          /\ printer_items["searching"].is_done
          /\ exc # None => exc[1].stage # "perform_searches"
          /\ pc \notin {"drain", "searched"} =>
                \E k \in Called("writer_with_tools") :
                    calls[k].input =
                        "Original query: " \o query \o "\nSummarized search results: []"

C7_Witness ==
    /\ pc = "done"
    /\ N = 3
    /\ failed_calls = {1, 2, 3}
    /\ Called("writer_with_tools") # {} /\ Called("verifier_agent") # {}

C7_WitnessEmptyPlan ==
    /\ pc = "done"
    /\ search_plan = Some(<< >>)

\* C8: the writer is given the query and exactly the successful texts (each once,
\* nothing for a failed task); the verifier is given exactly the markdown_report of the
\* report the writer produced.
AllTexts == UNION { TextsFor(i) : i \in 1..MaxSearches + 1 }

C8_DataThreaded ==
    /\ \A k \in Called("writer_with_tools") :
          /\ search_results # None
          /\ calls[k].input =
                "Original query: " \o query \o "\nSummarized search results: ["
                    \o ReprItems(search_results[1]) \o "]"
          /\ Len(search_results[1]) = Cardinality(Succeeded)
          /\ \A t \in AllTexts :
                Occurrences(search_results[1], t) =
                    Cardinality({ i \in Succeeded : tasks[i].result[1] = t })
    /\ \A k \in Called("verifier_agent") :
          /\ report # None
          /\ calls[k].input = report[1].markdown_report

C8_Witness ==
    /\ Called("verifier_agent") # {}
    /\ N = 3
    /\ failed_calls = {2}
    /\ Len(search_results[1]) = 2
    /\ tasks[1].result = tasks[3].result

\* C9: a run that completes has finalized the progress display, has shown the short
\* summary as the last progress line and has printed the markdown report, the follow-up
\* questions and the verification result; all of it is output in one go, after Verify
\* has produced its result, and never again.
C9_State ==
    /\ pc = "done" =>
          /\ printer_ended
          /\ printer_items["final_report"] =
                [text |-> "Report summary\n\n" \o report[1].short_summary, is_done |-> TRUE]
          /\ printer_log[Len(printer_log)].op = "end"
          /\ Len(stdout) = 6
          /\ stdout[2] = "Report:\n" \o report[1].markdown_report
          /\ stdout[4] = Join(report[1].follow_up_questions, "\n")
          /\ stdout[6] = (IF verification[1].verified THEN "verified=True" ELSE "verified=False")
    /\ (stdout # << >> \/ printer_ended \/ "final_report" \in DOMAIN printer_items) =>
          /\ pc = "done"
          /\ verification # None
          /\ spans["verify_report"].state = "closed"

C9_Step ==
    (stdout' # stdout \/ printer_ended' # printer_ended) =>
        /\ stdout = << >> /\ ~ printer_ended
        /\ pc = "verified" /\ pc' = "done"

C9_FinalRendering == [] C9_State /\ [][C9_Step]_vars

C9_Witness ==
    /\ pc = "done"
    /\ Len(stdout) = 6
    /\ report[1].follow_up_questions # << >>
    /\ ~ verification[1].verified

\* C10: the progress messages of the stream loop are a prefix of the fixed list (so in
\* order, each at most once, never more than 3), no more of them than events received,
\* at most one per event, each shown more than 5 seconds after the previous one (the
\* first more than 5 seconds after the stream was started).
WritingShown ==
    SelectSeq(printer_log,
              LAMBDA e : e.op = "update_item" /\ e.id = "writing"
                         /\ e.text # "Thinking about report...")

ShownTexts == [k \in 1..Len(WritingShown) |-> WritingShown[k].text]

C10_State ==
    /\ Len(ShownTexts) <= 3
    /\ ShownTexts = SubSeq(<< "Planning report structure...", "Writing sections...",
                              "Finalizing report..." >>, 1, Len(ShownTexts))
    /\ pc = "streaming" =>
          /\ Len(ShownTexts) <= events_seen
          /\ Len(shown_at) = Len(ShownTexts)
          /\ \A k \in 1..Len(shown_at) :
                shown_at[k] - (IF k = 1 THEN 0 ELSE shown_at[k - 1]) > 5

C10_Step ==
    printer_log' # printer_log =>
        /\ Len(ShownTexts') <= Len(ShownTexts) + 1
        /\ Len(ShownTexts') > Len(ShownTexts) =>
              /\ pc = "streaming" /\ pc' = "streaming"
              /\ events_seen' = events_seen + 1
              /\ shown_at' = Append(shown_at, clock')
              /\ clock' - (IF shown_at = << >> THEN 0 ELSE shown_at[Len(shown_at)]) > 5

C10_ProgressMessages == [] C10_State /\ [][C10_Step]_vars

\* three messages shown, and a fourth event more than 5 seconds later
C10_Witness ==
    /\ pc = "streaming"
    /\ next_message = 3
    /\ events_seen = 4
    /\ clock - last_update > 5

\* C11: the N tasks are all created in one step, before anything is drained; the next
\* scheduled task can start whatever the tasks in flight or finished are doing, so that
\* with k tasks in flight and none finished the next one can join them, up to all N.
InFlight == { i \in 1..N : tasks[i].state = "running" }
Scheduled == { i \in 1..N : tasks[i].state = "scheduled" }

C11_State ==
    /\ (pc = "drain" \/ num_completed > 0 \/ settle_order # << >>) => N = Len(search_plan[1])
    /\ Scheduled # {} =>
          LET i == CHOOSE j \in Scheduled : \A k \in Scheduled : j <= k
          IN  /\ ENABLED SearchStart(i)
              /\ InFlight = 1..(i - 1) => ENABLED (SearchStart(i) /\ InFlight' = 1..i)

C11_Step ==
    Len(tasks') # Len(tasks) =>
        /\ tasks = << >> /\ num_completed' = 0 /\ done_queue' = << >>
        /\ Len(tasks') = Len(search_plan[1])
        /\ \A i \in 1..Len(tasks') : tasks'[i].state = "scheduled"

C11_AllAtOnce == [] C11_State /\ [][C11_Step]_vars

C11_Witness ==
    /\ N = 3
    /\ InFlight = {1, 2, 3}
    /\ num_completed = 0

\* C12: the Printer calls for "searching" are, in order: "Searching...", then the ratio
\* k/N for k = 1, 2, ..., N, one after every drained outcome, then mark_item_done, which
\* comes only once N/N was shown (at once when N = 0).
SearchingLog == SelectSeq(printer_log, LAMBDA e : e.id = "searching")

ExpectedSearchingLog(n) ==
    << [op |-> "update_item", id |-> "searching", text |-> "Searching...", is_done |-> FALSE] >>
    \o [k \in 1..n |->
            [op |-> "update_item", id |-> "searching", is_done |-> FALSE,
             text |-> "Searching... " \o ToString(k) \o "/" \o ToString(n) \o " completed"]]
    \o << [op |-> "mark_item_done", id |-> "searching", text |-> "", is_done |-> TRUE] >>

C12_State ==
    /\ search_plan = None => SearchingLog = << >>
    /\ pc = "planned" => SearchingLog = << >>
    /\ (search_plan # None /\ pc # "planned") =>
          LET n == Len(search_plan[1])
              shown == 1 + num_completed + (IF search_results # None THEN 1 ELSE 0)
          IN  /\ num_completed <= n
              /\ SearchingLog = SubSeq(ExpectedSearchingLog(n), 1, shown)
              /\ search_results # None => num_completed = n
              /\ printer_items["searching"].is_done <=> search_results # None

C12_Step ==
    num_completed' # num_completed =>
        /\ num_completed' = num_completed + 1
        /\ Len(printer_log') = Len(printer_log) + 1
        /\ printer_log'[Len(printer_log')].text =
              "Searching... " \o ToString(num_completed') \o "/"
                  \o ToString(Len(search_plan[1])) \o " completed"

C12_ProgressRatio == [] C12_State /\ [][C12_Step]_vars

C12_Witness ==
    /\ search_results # None
    /\ N = 3
    /\ Len(SearchingLog) = 5
    /\ num_failed = 2

C12_WitnessEmptyPlan ==
    /\ search_results # None
    /\ N = 0
    /\ Len(SearchingLog) = 2

\* C13: a stage's progress line is shown as done only if that stage's structured result
\* was parsed: "planning" only with a SearchPlan, "writing" only with a ReportData,
\* "verifying" only with a VerificationResult.
IsDone(id) == id \in DOMAIN printer_items /\ printer_items[id].is_done

C13_DoneOnlyAfterParsed ==
    /\ IsDone("planning") => search_plan # None
    /\ IsDone("writing") => report # None
    /\ IsDone("verifying") => verification # None

\* C14: when every Runner call settles, run() ends, at done or by a propagated failure;
\* and as long as one search task has not settled, the Search stage has not returned
\* and the writer has not been called, however many of the other tasks are finished.
Terminated == pc \in {"done", "raised"}
Unsettled == { i \in 1..N : ~ Settled(i) }

C14_BlockedWhileUnsettled ==
    Unsettled # {} =>
        /\ pc = "drain"
        /\ search_results = None
        /\ num_completed < N
        /\ ~ ENABLED PerformSearchesEnd
        /\ ~ ENABLED WriteReportBegin
        /\ Called("writer_with_tools") = {}

C14_Liveness == <> Terminated /\ [] C14_BlockedWhileUnsettled

\* one task hangs, all the others are finished and drained
C14_Witness ==
    /\ N = 3
    /\ Cardinality(Unsettled) = 1
    /\ num_completed = 2

\* C15: a finished task's span has status ERROR and a recorded exception exactly when
\* its Runner.run call failed, with search.success = False then and True otherwise; an
\* unfinished task's span has neither; the perform_searches span never has an error,
\* and the run span has one only when a stage failure left run().
C15_OwnSpanOnly ==
    /\ Len(task_spans) = N
    /\ \A i \in 1..N :
          /\ ~ Settled(i) =>
                /\ task_spans[i].status = "UNSET" /\ ~ task_spans[i].recorded
                /\ "search.success" \notin DOMAIN task_spans[i].attrs
                /\ i \notin failed_calls
          /\ (Settled(i) /\ i \in failed_calls) =>
                /\ task_spans[i].status = "ERROR" /\ task_spans[i].recorded
                /\ task_spans[i].attrs["search.success"] = FALSE
          /\ (Settled(i) /\ i \notin failed_calls) =>
                /\ task_spans[i].status = "UNSET" /\ ~ task_spans[i].recorded
                /\ task_spans[i].attrs["search.success"] = TRUE
    /\ spans["perform_searches"].status = "UNSET" /\ ~ spans["perform_searches"].recorded
    /\ spans["run"].status = "ERROR" =>
          exc # None /\ exc[1].stage \in {"plan_searches", "write_report", "verify_report"}
    /\ exc = None => \A n \in SpanNames : spans[n].status = "UNSET"

C15_Witness ==
    /\ pc = "done"
    /\ N = 3
    /\ failed_calls = {2}
    /\ task_spans[2].status = "ERROR"
    /\ task_spans[1].status = "UNSET" /\ task_spans[3].status = "UNSET"

\* C16: every span goes from unopened to open to closed and never back; a stage span is
\* opened exactly when its stage is entered and a task span when its task starts; a
\* stage span is open only while the run span is, at most one at a time; every task
\* span is closed when the perform_searches span is; nothing is open once run() has
\* returned or raised.
StageSpans == SpanNames \ {"run"}
OpenSpans == { n \in SpanNames : spans[n].state = "open" }
Entered(n) == spans[n].state # "unopened"

SpanMoves(old, new) ==
    old.state # new.state =>
        \/ old.state = "unopened" /\ new.state = "open"
        \/ old.state = "open" /\ new.state = "closed"

C16_State ==
    /\ Entered("run") <=> pc # "start"
    /\ Entered("plan_searches") <=> Called("planner_agent") # {}
    /\ Entered("perform_searches") <=> pc \notin {"start", "plan_await", "planned"} /\ search_plan # None
    /\ Entered("write_report") <=> Called("writer_with_tools") # {}
    /\ Entered("verify_report") <=> Called("verifier_agent") # {}
    /\ Len(task_spans) = N
    /\ \A i \in 1..N : task_spans[i].state # "unopened" <=> tasks[i].state # "scheduled"
    /\ \A i \in 1..N : task_spans[i].state = "closed" <=> Settled(i)
    /\ Cardinality(OpenSpans \cap StageSpans) <= 1
    /\ OpenSpans \cap StageSpans # {} => spans["run"].state = "open"
    /\ (\E i \in 1..N : task_spans[i].state = "open") => spans["perform_searches"].state = "open"
    /\ spans["perform_searches"].state = "closed" =>
          \A i \in 1..N : task_spans[i].state = "closed"
    /\ spans["run"].state = "closed" <=> pc \in {"done", "raised"}
    /\ pc \in {"done", "raised"} =>
          /\ OpenSpans = {}
          /\ \A i \in 1..N : task_spans[i].state = "closed"

C16_Step ==
    /\ \A n \in SpanNames : SpanMoves(spans[n], spans'[n])
    /\ Len(task_spans') = Len(task_spans) =>
          \A i \in 1..Len(task_spans) : SpanMoves(task_spans[i], task_spans'[i])
    /\ Len(task_spans') # Len(task_spans) => task_spans = << >>

C16_SpanDiscipline == [] C16_State /\ [][C16_Step]_vars

C16_Witness ==
    /\ pc = "raised"
    /\ exc[1].stage = "write_report"
    /\ exc[1].by = "stream_events"
    /\ N >= 2
    /\ spans["verify_report"].state = "unopened"

\* C17: at every moment num_completed = len(results) + num_failed <= tasks finished <= N;
\* the three accumulators change only in a step of the drain loop, in which no task
\* moves, and then num_completed grows by one and either one text is appended to
\* results or num_failed grows by one, not both.
C17_State ==
    /\ num_completed = Len(results) + num_failed
    /\ num_completed <= Cardinality({ i \in 1..N : Settled(i) })
    /\ Cardinality({ i \in 1..N : Settled(i) }) <= N
    /\ num_completed + Len(done_queue) = Len(settle_order)

C17_Step ==
    << results, num_completed, num_failed >>' # << results, num_completed, num_failed >> =>
        /\ pc = "drain" /\ pc' = "drain"
        /\ tasks' = tasks /\ task_spans' = task_spans /\ settle_order' = settle_order
        /\ num_completed' = num_completed + 1
        /\ LET i == settle_order[num_completed'] IN
              IF i \in failed_calls
              THEN results' = results /\ num_failed' = num_failed + 1
              ELSE /\ Len(results') = Len(results) + 1
                   /\ SubSeq(results', 1, Len(results)) = results
                   /\ results'[Len(results')] = tasks[i].result[1]
                   /\ num_failed' = num_failed

C17_Accumulators == [] C17_State /\ [][C17_Step]_vars

\* two tasks finished, one of them drained, one still in flight
C17_Witness ==
    /\ pc = "drain"
    /\ N = 3
    /\ num_completed = 1
    /\ Len(done_queue) = 1
    /\ Cardinality(InFlight) = 1
====
